---- MODULE Spec2Model ----
(***************************************************************************)
(* Client-side session manager of the UniCom web application               *)
(* (AuthProvider: token storage, expiry detection, silent refresh, route   *)
(* guard), with the login page and the fetch helpers of utils/auth.ts that *)
(* call into it.                                                           *)
(*                                                                         *)
(* Execution model: one browser tab, one event loop.  Every action below   *)
(* is one task of the event loop: an event handler, the part of an async   *)
(* function between two awaits, or the arrival of a network response.      *)
(* React state (isAuthenticated, isLoading, user) holds the committed      *)
(* values; the route-protection effect runs as part of every task that     *)
(* changes one of its dependencies.                                        *)
(***************************************************************************)
EXTENDS Integers, FiniteSets, Bags, TLC

VARIABLES
    now,              \* Math.floor(Date.now() / 1000)
    store,            \* localStorage: token, refreshToken, user_id
    isAuthenticated,  \* useState(false)
    isLoading,        \* useState(true)
    user,             \* useState(null): the user's id, or Null
    pathname,         \* usePathname()
    nav,              \* target of the router's pending push, or "none"
    redirect,         \* what the latest run of the route-protection effect pushed
    inflight,         \* bag of refresh requests awaiting their response
    cont,             \* checkAuthStatus resumed after `await refreshToken()`
    fetches,          \* authenticatedFetch requests awaiting their response
    loginReq,         \* handleLogin awaiting loginUser: 0 or 1
    timer,            \* handleLogin's setTimeout(router.push('/')) is pending
    ev,               \* the task that produced the current state
    posts,            \* My Posts page: useState([]), the displayed posts
    loadingPosts,     \* My Posts page: `loading`, useState(true)
    page,             \* My Posts page: useState(1)
    total,            \* My Posts page: useState(0)
    searchQuery,      \* My Posts page: useState("")
    ops,              \* My Posts page: requests awaiting their response
    db                \* the user's posts on the server

authVars == <<now, store, isAuthenticated, isLoading, user, pathname, nav, redirect,
              inflight, cont, fetches, loginReq, timer, ev>>

pageVars == <<posts, loadingPosts, page, total, searchQuery, ops, db>>

vars == <<authVars, pageVars>>

\* The My Posts page is not mounted.
NoPage ==
    /\ posts = {}
    /\ loadingPosts = TRUE
    /\ page = 1
    /\ total = 0
    /\ searchQuery = ""
    /\ ops = {}
    /\ db = {}

(***************************************************************************)
(* Bounds of the model.                                                    *)
(***************************************************************************)
MaxNow == 1
MaxInFlight == 2
MaxFetch == 1

(***************************************************************************)
(* Values.  Null stands for null / undefined / a missing key.              *)
(***************************************************************************)
Null == "null"

Users == {"A", "B"}

\* Access tokens the backend issues.  A token is an opaque string to the
\* client except for the payload segment, which TokenPayload decodes.
AccessTokens == {"A1", "A9", "B9"}

\* Refresh tokens the backend issues.
RefreshTokens == {"RA1", "RA2", "RB1"}

\* The user a credential was issued for.
Sub(t) == IF t \in {"A1", "A9", "RA1", "RA2"} THEN "A" ELSE "B"

TokensOf(u) == {t \in AccessTokens : Sub(t) = u}

RefreshTokensOf(u) == {r \in RefreshTokens : Sub(r) = u}

PUBLIC_ROUTES == {"/login", "/register", "/verify"}

LOGIN_ROUTE == "/login"

LANDING_ROUTE == "/"

\* The locations the model visits: a public route and the landing route.
Routes == {"/login", "/"}

BUFFER == 300

(***************************************************************************)
(* isTokenExpired                                                          *)
(***************************************************************************)
\* What a token string is made of: the number of '.'-separated segments,
\* whether the second segment is valid base64, what its decoded text is as
\* JSON ("object", the literal "null", or "invalid"), and the exp member of
\* the object, if any.
Jwt(exp) ==
    [segs |-> 3, b64 |-> TRUE, json |-> "object", hasExp |-> TRUE, exp |-> exp]

TokenShape(t) ==
    CASE t = "A1"   -> Jwt(BUFFER)
      [] t = "A9"   -> Jwt(9999)
      [] t = "B9"   -> Jwt(9999)
      [] t = "P0"   -> Jwt(0)
      [] t = "P299" -> Jwt(BUFFER - 1)
      [] t = "P301" -> Jwt(BUFFER + 1)
      [] t = "P302" -> Jwt(BUFFER + 2)
      [] t = "NoExp"   -> [Jwt(0) EXCEPT !.hasExp = FALSE]
      [] t = "NoDot"   -> [Jwt(0) EXCEPT !.segs = 1]
      [] t = "BadB64"  -> [Jwt(0) EXCEPT !.b64 = FALSE]
      [] t = "BadJson" -> [Jwt(0) EXCEPT !.json = "invalid"]
      [] t = "JsonNull" -> [Jwt(0) EXCEPT !.json = "null"]

\* Tokens with a readable exp claim, and tokens whose decoding throws.
ExpTokens == {"A1", "A9", "B9", "P0", "P299", "P301", "P302"}

BrokenTokens == {"NoDot", "BadB64", "BadJson", "JsonNull"}

\* Every token string isTokenExpired is tried on.
AllTokens == ExpTokens \cup BrokenTokens \cup {"NoExp"}

\* JSON.parse(atob(token.split('.')[1])) and the read of payload.exp.
\* ok = FALSE when a step throws: split('.')[1] is undefined for a token
\* without a dot and atob(undefined) throws, atob throws on invalid base64,
\* JSON.parse throws on invalid JSON, and null.exp throws.  hasExp tells
\* whether the payload object carries an exp member.
TokenPayload(t) ==
    LET s == TokenShape(t)
        failed == [ok |-> FALSE, hasExp |-> FALSE, exp |-> 0]
    IN  IF s.segs < 2 THEN failed
        ELSE IF ~s.b64 THEN failed
        ELSE IF s.json # "object" THEN failed
        ELSE [ok |-> TRUE, hasExp |-> s.hasExp, exp |-> IF s.hasExp THEN s.exp ELSE 0]

\* Variant of IsTokenExpired: exp is compared with the current time, without
\* the five-minute buffer.
IsTokenExpired_NoBuffer(token, stored, time) ==
    LET tokenToCheck == IF token # Null THEN token ELSE stored
        payload == TokenPayload(tokenToCheck)
    IN  IF tokenToCheck = Null THEN TRUE
        ELSE IF ~payload.ok THEN TRUE
        ELSE IF ~payload.hasExp THEN FALSE
        ELSE payload.exp < time

\* isTokenExpired(token) at time `time` with `stored` in localStorage.
\* `undefined < n` is false in JavaScript, so a payload without exp is
\* reported as not expired.
IsTokenExpired(token, stored, time) ==
    LET tokenToCheck == IF token # Null THEN token ELSE stored
        payload == TokenPayload(tokenToCheck)
    IN  IF tokenToCheck = Null THEN TRUE
        ELSE IF ~payload.ok THEN TRUE
        ELSE IF ~payload.hasExp THEN FALSE
        ELSE payload.exp < time + BUFFER

(***************************************************************************)
(* Effects of the operations on localStorage                               *)
(***************************************************************************)
EmptyStore == [token |-> Null, refreshToken |-> Null, user_id |-> Null]

\* Variant of LoginStore: the refresh token is not written.
LoginStore_NoRefreshToken(st, token, userId, refreshTokenValue) ==
    [token        |-> token,
     user_id      |-> userId,
     refreshToken |-> st.refreshToken]

\* Variant of LoginStore: a token already stored is kept.
LoginStore_KeepStoredToken(st, token, userId, refreshTokenValue) ==
    [token        |-> IF st.token # Null THEN st.token ELSE token,
     user_id      |-> userId,
     refreshToken |-> IF refreshTokenValue # Null THEN refreshTokenValue
                      ELSE st.refreshToken]

\* login: setItem('token'), setItem('user_id'), and setItem('refreshToken')
\* only when a refresh token is passed.
LoginStore(st, token, userId, refreshTokenValue) ==
    [token        |-> token,
     user_id      |-> userId,
     refreshToken |-> IF refreshTokenValue # Null THEN refreshTokenValue
                      ELSE st.refreshToken]

\* Variant of LogoutStore: the refresh token is left in place, as
\* clearAuthData leaves it.
LogoutStore_KeepRefreshToken(st) ==
    [st EXCEPT !.token = Null, !.user_id = Null]

\* Variant of LogoutStore: nothing is removed.
LogoutStore_RemovesNothing(st) == st

\* Variant of LogoutStore: a call removes the token if there is one, and the
\* other two keys only when the token is already gone.
LogoutStore_TokenFirst(st) ==
    IF st.token # Null THEN [st EXCEPT !.token = Null]
    ELSE [st EXCEPT !.refreshToken = Null, !.user_id = Null]

\* logout, and the failure branch of checkAuthStatus: three removeItem calls.
LogoutStore(st) ==
    [st EXCEPT !.token = Null, !.refreshToken = Null, !.user_id = Null]

\* Variant of RefreshOkStore: the refresh token is overwritten with whatever
\* the body holds, present or not.
RefreshOkStore_AlwaysOverwrite(st, data) ==
    [st EXCEPT !.token = data.token,
               !.refreshToken = data.refreshToken]

\* refreshToken on response.ok: the stored tokens are updated from the body.
RefreshOkStore(st, data) ==
    [st EXCEPT !.token = data.token,
               !.refreshToken = IF data.refreshToken # Null
                                THEN data.refreshToken ELSE @]

\* clearAuthData of utils/auth.ts: token and user_id only.
ClearAuthData(st) ==
    [st EXCEPT !.token = Null, !.user_id = Null]

\* Variant of RefreshTokenStart: the request carries the stored access token.
RefreshTokenStart_SendsAccessToken(st) ==
    IF st.refreshToken = Null
    THEN [request |-> FALSE, sent |-> Null, store |-> st,
          logout |-> FALSE, ret |-> Null]
    ELSE [request |-> TRUE, sent |-> st.token, store |-> st,
          logout |-> FALSE, ret |-> Null]

\* refreshToken() up to its first await, with a missing refresh token made
\* to log the user out.
RefreshTokenStart_LogoutWhenMissing(st) ==
    IF st.refreshToken = Null
    THEN [request |-> FALSE, sent |-> Null, store |-> LogoutStore(st),
          logout |-> TRUE, ret |-> Null]
    ELSE [request |-> TRUE, sent |-> st.refreshToken, store |-> st,
          logout |-> FALSE, ret |-> Null]

\* refreshToken() up to its first await: without a stored refresh token it
\* returns null at once (request = FALSE); otherwise it posts the stored
\* refresh token (sent) and awaits the response.
RefreshTokenStart(st) ==
    IF st.refreshToken = Null
    THEN [request |-> FALSE, sent |-> Null, store |-> st,
          logout |-> FALSE, ret |-> Null]
    ELSE [request |-> TRUE, sent |-> st.refreshToken, store |-> st,
          logout |-> FALSE, ret |-> Null]

(***************************************************************************)
(* refreshToken, from the arrival of the response on                       *)
(***************************************************************************)
\* What the refresh endpoint can answer to a request carrying `sent`:
\* a 2xx body { token, refreshToken? } for the owner of `sent`, a non-2xx
\* status, or nothing at all (fetch throws).
Responses(sent) ==
    {[kind |-> "ok", token |-> t, refreshToken |-> r] :
        t \in TokensOf(Sub(sent)),
        r \in {Null} \cup (RefreshTokensOf(Sub(sent)) \ {sent})}
    \cup {[kind |-> "reject", token |-> Null, refreshToken |-> Null],
          [kind |-> "neterr", token |-> Null, refreshToken |-> Null]}

\* Variant of RefreshTokenDone: the catch block logs out like the non-2xx
\* branch does.
RefreshTokenDone_LogoutOnError(st, resp) ==
    IF resp.kind = "ok"
    THEN [store |-> RefreshOkStore(st, resp), logout |-> FALSE, ret |-> resp.token]
    ELSE [store |-> LogoutStore(st), logout |-> TRUE, ret |-> Null]

\* Variant of RefreshTokenDone: the non-2xx branch returns null without
\* calling logout().
RefreshTokenDone_NoLogout(st, resp) ==
    IF resp.kind = "ok"
    THEN [store |-> RefreshOkStore(st, resp), logout |-> FALSE, ret |-> resp.token]
    ELSE [store |-> st, logout |-> FALSE, ret |-> Null]

\* The part of refreshToken after `await fetch`: the store it leaves, whether
\* it called logout(), and the value it returns.
RefreshTokenDone(st, resp) ==
    IF resp.kind = "ok"
    THEN [store |-> RefreshOkStore(st, resp), logout |-> FALSE, ret |-> resp.token]
    ELSE IF resp.kind = "reject"
    THEN [store |-> LogoutStore(st), logout |-> TRUE, ret |-> Null]
    ELSE [store |-> st, logout |-> FALSE, ret |-> Null]

\* getValidToken after `await refreshToken()`: newToken if truthy, else null.
GetValidTokenReturn(newToken) ==
    IF newToken # Null THEN newToken ELSE Null

(***************************************************************************)
(* Route protection effect                                                 *)
(***************************************************************************)
\* The router.push the effect makes for the given dependency values, or
\* "none".
RouteProtection(auth, loading, path) ==
    IF ~loading
    THEN IF ~auth /\ path \notin PUBLIC_ROUTES THEN LOGIN_ROUTE
         ELSE IF auth /\ path \in PUBLIC_ROUTES THEN LANDING_ROUTE
         ELSE "none"
    ELSE "none"

\* Variant of DepsChanged: pathname is missing from the dependency list.
DepsChanged_NoPathname(auth, loading, path) ==
    \/ auth # isAuthenticated
    \/ loading # isLoading

\* The effect's dependency list [isAuthenticated, isLoading, pathname, router]:
\* the effect runs again when one of them has changed (router is stable).
DepsChanged(auth, loading, path) ==
    \/ auth # isAuthenticated
    \/ loading # isLoading
    \/ path # pathname

\* Variant of Commit: setIsLoading is never applied.
Commit_KeepsLoading(auth, loading, usr, path, navH) ==
    LET g == RouteProtection(auth, isLoading, path)
        ran == DepsChanged(auth, isLoading, path)
    IN  /\ isAuthenticated' = auth
        /\ isLoading' = isLoading
        /\ user' = usr
        /\ pathname' = path
        /\ redirect' = IF ran THEN g ELSE redirect
        /\ nav' = IF ran /\ g # "none" THEN g ELSE navH

\* Commit of a task: the new React state and location, then the effect.
\* navH is the router's pending push as the task's own code left it.
Commit(auth, loading, usr, path, navH) ==
    LET g == RouteProtection(auth, loading, path)
        ran == DepsChanged(auth, loading, path)
    IN  /\ isAuthenticated' = auth
        /\ isLoading' = loading
        /\ user' = usr
        /\ pathname' = path
        /\ redirect' = IF ran THEN g ELSE redirect
        /\ nav' = IF ran /\ g # "none" THEN g ELSE navH

\* A task that touches neither the React state nor the router.
NoRender ==
    UNCHANGED <<isAuthenticated, isLoading, user, pathname, nav, redirect>>

(***************************************************************************)
(* Bookkeeping                                                             *)
(***************************************************************************)
NoCont == [pending |-> FALSE, ret |-> Null, userId |-> Null]

\* The task that produced a state: the operation, who called it, the branch
\* taken (for a response, its kind), the arguments or the response body
\* (tok, uid, rt), what refreshToken returned (ret) and what getValidToken
\* returned (gret) in the task.  The event of a getValidToken call made
\* right after a login carries that login's token in tok.
Ev(op, caller, kind, tok, uid, rt, ret, gret) ==
    [op |-> op, caller |-> caller, kind |-> kind,
     tok |-> tok, uid |-> uid, rt |-> rt, ret |-> ret, gret |-> gret]

\* A task the properties do not single out.
Other == Ev("other", "none", "none", Null, Null, Null, Null, Null)

\* The token passed to login when the task just finished was a login call.
JustLoggedIn == IF ev.op = "login" THEN ev.tok ELSE Null

Request(caller, sent, userId) ==
    [caller |-> caller, sent |-> sent, userId |-> userId]

InitRequests == {q \in BagToSet(inflight) : q.caller = "init"}

\* No microtask is pending: a new task of the event loop can start.
Quiet == ~cont.pending

(***************************************************************************)
(* Initial state: a first visit, nothing persisted, the provider mounted.  *)
(***************************************************************************)
Init ==
    /\ now = 0
    /\ store = EmptyStore
    /\ isAuthenticated = FALSE
    /\ isLoading = TRUE
    /\ user = Null
    /\ pathname \in Routes
    /\ nav = "none"
    /\ redirect = "none"
    /\ inflight = EmptyBag
    /\ cont = NoCont
    /\ fetches = 0
    /\ loginReq = 0
    /\ timer = FALSE
    /\ ev = Ev("mount", "none", "none", Null, Null, Null, Null, Null)
    /\ NoPage

(***************************************************************************)
(* Startup check                                                           *)
(***************************************************************************)
\* checkAuthStatus up to its first await (or to its end when it awaits
\* nothing).  It runs once per mount, from the mount effect.
CheckAuthStatus ==
    /\ isLoading /\ Quiet /\ InitRequests = {}
    /\ LET token == store.token
           userId == store.user_id
       IN  IF token # Null /\ userId # Null
           THEN IF IsTokenExpired(token, store.token, now)
                THEN LET r == RefreshTokenStart(store)
                     IN  IF ~r.request
                         THEN \* refreshToken() returns without a request
                              /\ cont' = [pending |-> TRUE, ret |-> r.ret, userId |-> userId]
                              /\ ev' = Ev("checkAuthStatus", "init", "nort", Null, Null, Null, r.ret, Null)
                              /\ store' = r.store
                              /\ UNCHANGED inflight
                              /\ IF r.logout
                                 THEN Commit(FALSE, isLoading, Null, pathname, LOGIN_ROUTE)
                                 ELSE NoRender
                         ELSE /\ inflight' = inflight (+) SetToBag({Request("init", r.sent, userId)})
                              /\ ev' = Ev("checkAuthStatus", "init", "await", Null, Null, Null, Null, Null)
                              /\ UNCHANGED <<cont, store>>
                              /\ NoRender
                ELSE /\ Commit(TRUE, FALSE, userId, pathname, nav)
                     /\ ev' = Ev("checkAuthStatus", "init", "valid", Null, Null, Null, Null, Null)
                     /\ UNCHANGED <<inflight, cont, store>>
           ELSE /\ Commit(FALSE, FALSE, Null, pathname, nav)
                /\ ev' = Ev("checkAuthStatus", "init", "missing", Null, Null, Null, Null, Null)
                /\ UNCHANGED <<inflight, cont, store>>
    /\ UNCHANGED <<now, fetches, loginReq, timer>>
    /\ UNCHANGED pageVars

\* checkAuthStatus after `await refreshToken()`, to its finally block.
CheckAuthResume ==
    /\ cont.pending
    /\ IF cont.ret # Null
       THEN /\ Commit(TRUE, FALSE, cont.userId, pathname, nav)
            /\ UNCHANGED store
            /\ ev' = Ev("checkAuthResume", "init", "ok", Null, Null, Null, Null, Null)
       ELSE /\ Commit(FALSE, FALSE, Null, pathname, nav)
            /\ store' = LogoutStore(store)
            /\ ev' = Ev("checkAuthResume", "init", "failed", Null, Null, Null, Null, Null)
    /\ cont' = NoCont
    /\ UNCHANGED <<now, inflight, fetches, loginReq, timer>>
    /\ UNCHANGED pageVars

(***************************************************************************)
(* Operations of the context                                               *)
(***************************************************************************)
\* login(token, userId, refreshTokenValue), called by a consumer with
\* credentials the backend issued for one user.  Consumers are rendered only
\* once isLoading is false.
Login ==
    /\ ~isLoading /\ Quiet
    /\ \E u \in Users :
       \E t \in TokensOf(u) :
       \E r \in RefreshTokensOf(u) \cup {Null} :
          /\ store' = LoginStore(store, t, u, r)
          /\ Commit(TRUE, isLoading, u, pathname, nav)
          /\ ev' = Ev("login", "consumer", "none", t, u, r, Null, Null)
    /\ UNCHANGED <<now, inflight, cont, fetches, loginReq, timer>>
    /\ UNCHANGED pageVars

\* logout(), called by a consumer.  The event of a call made right after
\* another logout() has kind "again".
Logout ==
    /\ ~isLoading /\ Quiet
    /\ store' = LogoutStore(store)
    /\ Commit(FALSE, isLoading, Null, pathname, LOGIN_ROUTE)
    /\ ev' = Ev("logout", "consumer", IF ev.op = "logout" THEN "again" ELSE "none",
                Null, Null, Null, Null, Null)
    /\ UNCHANGED <<now, inflight, cont, fetches, loginReq, timer>>
    /\ UNCHANGED pageVars

\* Variant of GetValidTokenPath: a missing token is treated like an expired
\* one.
GetValidTokenPath_RefreshWhenMissing(st, time) ==
    IF IsTokenExpired(st.token, st.token, time) THEN "expired"
    ELSE "stored"

\* The branch getValidToken takes: no stored token, a stored token that
\* isTokenExpired reports expired, or a stored token returned as it is.
GetValidTokenPath(st, time) ==
    IF st.token = Null THEN "notoken"
    ELSE IF IsTokenExpired(st.token, st.token, time) THEN "expired"
    ELSE "stored"

\* getValidToken(), called by a consumer, up to `await fetch` inside
\* refreshToken (or to its return when no request is made).
GetValidToken ==
    /\ ~isLoading /\ Quiet
    /\ LET token == store.token
           after == JustLoggedIn
           path == GetValidTokenPath(store, now)
       IN  IF path = "notoken"
           THEN /\ ev' = Ev("getValidToken", "gvt", "notoken", after, Null, Null, Null, Null)
                /\ UNCHANGED <<inflight, store>>
                /\ NoRender
           ELSE IF path = "expired"
           THEN LET r == RefreshTokenStart(store)
                IN  IF ~r.request
                    THEN /\ ev' = Ev("getValidToken", "gvt", "nort", after, Null, Null, r.ret,
                                     GetValidTokenReturn(r.ret))
                         /\ store' = r.store
                         /\ UNCHANGED inflight
                         /\ IF r.logout
                            THEN Commit(FALSE, isLoading, Null, pathname, LOGIN_ROUTE)
                            ELSE NoRender
                    ELSE /\ BagCardinality(inflight) < MaxInFlight
                         /\ inflight' = inflight (+) SetToBag({Request("gvt", r.sent, Null)})
                         /\ ev' = Ev("getValidToken", "gvt", "await", after, Null, Null, Null, Null)
                         /\ UNCHANGED store
                         /\ NoRender
           ELSE /\ ev' = Ev("getValidToken", "gvt", "stored", after, Null, Null, Null, token)
                /\ UNCHANGED <<inflight, store>>
                /\ NoRender
    /\ UNCHANGED <<now, cont, fetches, loginReq, timer>>
    /\ UNCHANGED pageVars

\* The response to a refresh request arrives (or the request fails):
\* refreshToken runs to its return, and getValidToken, if it was the caller,
\* returns what it got.  checkAuthStatus resumes in CheckAuthResume.
RefreshDone ==
    /\ Quiet
    /\ \E q \in BagToSet(inflight) :
       \E resp \in Responses(q.sent) :
          LET r == RefreshTokenDone(store, resp)
          IN  /\ inflight' = inflight (-) SetToBag({q})
              /\ store' = r.store
              /\ IF r.logout
                 THEN Commit(FALSE, isLoading, Null, pathname, LOGIN_ROUTE)
                 ELSE NoRender
              /\ cont' = IF q.caller = "init"
                         THEN [pending |-> TRUE, ret |-> r.ret, userId |-> q.userId]
                         ELSE cont
              /\ ev' = Ev("refresh", q.caller, resp.kind, resp.token, Null,
                          resp.refreshToken, r.ret,
                          IF q.caller = "gvt" THEN GetValidTokenReturn(r.ret) ELSE Null)
    /\ UNCHANGED <<now, fetches, loginReq, timer>>
    /\ UNCHANGED pageVars

(***************************************************************************)
(* Login page                                                              *)
(***************************************************************************)
\* The 2xx bodies the login endpoint can answer with:
\* { token, user_id, refreshToken? } for one user.
LoginResponses ==
    {d \in [token : AccessTokens, user_id : Users,
            refreshToken : RefreshTokens \cup {Null}] :
        /\ Sub(d.token) = d.user_id
        /\ d.refreshToken # Null => Sub(d.refreshToken) = d.user_id}

\* loginUser on a 2xx body with a token: the object it returns.
LoginUser(data) ==
    [token |-> data.token, user_id |-> data.user_id]

\* res.<name> in JavaScript: undefined when the object has no such property.
Field(res, name) ==
    IF name \in DOMAIN res THEN res[name] ELSE Null

\* handleLogin up to `await loginUser(email, password)`.  The submit button is
\* disabled while a request is pending.
HandleLogin ==
    /\ ~isLoading /\ Quiet
    /\ pathname = LOGIN_ROUTE
    /\ loginReq = 0
    /\ loginReq' = 1
    /\ ev' = Ev("handleLogin", "page", "await", Null, Null, Null, Null, Null)
    /\ NoRender
    /\ UNCHANGED <<now, store, inflight, cont, fetches, timer>>
    /\ UNCHANGED pageVars

\* handleLogin after the await, with an error result (non-2xx, no token in the
\* body, or no response): only a message is shown.
HandleLoginError ==
    /\ loginReq = 1 /\ Quiet
    /\ loginReq' = 0
    /\ ev' = Other
    /\ NoRender
    /\ UNCHANGED <<now, store, inflight, cont, fetches, timer>>
    /\ UNCHANGED pageVars

\* handleLogin after the await, with a successful result: login(res.token,
\* res.user_id, res.refreshToken) and the delayed router.push('/').
HandleLoginDone ==
    /\ loginReq = 1 /\ Quiet
    /\ \E data \in LoginResponses :
          LET res == LoginUser(data)
          IN  /\ store' = LoginStore(store, Field(res, "token"), Field(res, "user_id"),
                                     Field(res, "refreshToken"))
              /\ Commit(TRUE, isLoading, Field(res, "user_id"), pathname, nav)
              /\ ev' = Ev("handleLogin", "page", "ok", data.token, data.user_id,
                          data.refreshToken, Null, Null)
    /\ loginReq' = 0
    /\ timer' = TRUE
    /\ UNCHANGED <<now, inflight, cont, fetches>>
    /\ UNCHANGED pageVars

\* The setTimeout callback of handleLogin: router.push('/').
LoginTimer ==
    /\ timer /\ Quiet
    /\ timer' = FALSE
    /\ Commit(isAuthenticated, isLoading, user, pathname, LANDING_ROUTE)
    /\ ev' = Other
    /\ UNCHANGED <<now, store, inflight, cont, fetches, loginReq>>
    /\ UNCHANGED pageVars

(***************************************************************************)
(* Page loads                                                              *)
(***************************************************************************)
\* A full page load at `path`: the JavaScript context is discarded with its
\* pending requests and timers, localStorage stays, AuthProvider mounts with
\* its initial state.
PageLoad(path) ==
    /\ isAuthenticated' = FALSE
    /\ isLoading' = TRUE
    /\ user' = Null
    /\ pathname' = path
    /\ nav' = "none"
    /\ redirect' = "none"
    /\ inflight' = EmptyBag
    /\ cont' = NoCont
    /\ fetches' = 0
    /\ loginReq' = 0
    /\ timer' = FALSE

\* The user reloads the page.
Reload ==
    /\ Quiet
    /\ PageLoad(pathname)
    /\ ev' = Ev("mount", "none", "reload", Null, Null, Null, Null, Null)
    /\ UNCHANGED <<now, store>>
    /\ UNCHANGED pageVars

(***************************************************************************)
(* authenticatedFetch of utils/auth.ts                                     *)
(***************************************************************************)
\* authenticatedFetch up to `await fetch`: it throws when no token is stored.
AuthenticatedFetch ==
    /\ ~isLoading /\ Quiet
    /\ store.token # Null
    /\ fetches < MaxFetch
    /\ fetches' = fetches + 1
    /\ ev' = Other
    /\ NoRender
    /\ UNCHANGED <<now, store, inflight, cont, loginReq, timer>>
    /\ UNCHANGED pageVars

\* The response arrives with a status other than 401 and is returned.
AuthenticatedFetchDone ==
    /\ fetches > 0 /\ Quiet
    /\ fetches' = fetches - 1
    /\ ev' = Other
    /\ NoRender
    /\ UNCHANGED <<now, store, inflight, cont, loginReq, timer>>
    /\ UNCHANGED pageVars

\* The response arrives with status 401: clearAuthData() and
\* window.location.href = '/login'.
AuthenticatedFetch401 ==
    /\ fetches > 0 /\ Quiet
    /\ store' = ClearAuthData(store)
    /\ PageLoad(LOGIN_ROUTE)
    /\ ev' = Ev("authenticatedFetch", "fetch", "401", Null, Null, Null, Null, Null)
    /\ UNCHANGED now
    /\ UNCHANGED pageVars

(***************************************************************************)
(* Environment: the router and the clock                                   *)
(***************************************************************************)
\* A navigation the user or a page starts: a Link, or router.push("/login")
\* of the register page after verification.
Navigate ==
    /\ Quiet
    /\ \E r \in Routes :
          Commit(isAuthenticated, isLoading, user, pathname, r)
    /\ ev' = Other
    /\ UNCHANGED <<now, store, inflight, cont, fetches, loginReq, timer>>
    /\ UNCHANGED pageVars

\* The router completes its pending push: usePathname() changes.
NavComplete ==
    /\ Quiet
    /\ nav # "none"
    /\ Commit(isAuthenticated, isLoading, user, nav, "none")
    /\ ev' = Other
    /\ UNCHANGED <<now, store, inflight, cont, fetches, loginReq, timer>>
    /\ UNCHANGED pageVars

\* A second passes.
Tick ==
    /\ Quiet
    /\ now < MaxNow
    /\ now' = now + 1
    /\ ev' = Other
    /\ NoRender
    /\ UNCHANGED <<store, inflight, cont, fetches, loginReq, timer>>
    /\ UNCHANGED pageVars

Next ==
    \/ CheckAuthStatus
    \/ CheckAuthResume
    \/ Login
    \/ Logout
    \/ GetValidToken
    \/ RefreshDone
    \/ HandleLogin
    \/ HandleLoginError
    \/ HandleLoginDone
    \/ LoginTimer
    \/ Reload
    \/ AuthenticatedFetch
    \/ AuthenticatedFetchDone
    \/ AuthenticatedFetch401
    \/ Navigate
    \/ NavComplete
    \/ Tick

Spec == Init /\ [][Next]_vars

(***************************************************************************)
(* isTokenExpired on its own: calls with any token, any stored token, at   *)
(* any time                                                                *)
(***************************************************************************)
\* localStorage holds any token string, or none; the provider has finished
\* loading, unauthenticated, on the login page, so that consumers can call
\* into it.
InitExp ==
    /\ now = 0
    /\ store \in {[EmptyStore EXCEPT !.token = t] : t \in AllTokens \cup {Null}}
    /\ isAuthenticated = FALSE
    /\ isLoading = FALSE
    /\ user = Null
    /\ pathname = LOGIN_ROUTE
    /\ nav = "none"
    /\ redirect = "none"
    /\ inflight = EmptyBag
    /\ cont = NoCont
    /\ fetches = 0
    /\ loginReq = 0
    /\ timer = FALSE
    /\ ev = Other
    /\ NoPage

\* isTokenExpired(token), token given or omitted: ev.tok is the argument and
\* ev.kind the boolean it returned.
IsTokenExpiredCall ==
    /\ \E token \in AllTokens \cup {Null} :
          ev' = Ev("isTokenExpired", "consumer",
                   IF IsTokenExpired(token, store.token, now) THEN "true" ELSE "false",
                   token, Null, Null, Null, Null)
    /\ NoRender
    /\ UNCHANGED <<now, store, inflight, cont, fetches, loginReq, timer>>
    /\ UNCHANGED pageVars

NextExp ==
    \/ IsTokenExpiredCall
    \/ GetValidToken
    \/ Tick

SpecExp == InitExp /\ [][NextExp]_vars

(***************************************************************************)
(* One mounted provider, from its mount on, with the scheduling the        *)
(* runtime guarantees                                                      *)
(***************************************************************************)
\* What localStorage can hold when a page is loaded: nothing, what a login
\* left, or what clearAuthData left of it.
StartupStores ==
    LET loggedIn == {LoginStore(EmptyStore, t, u, r) :
                        u \in Users, t \in AccessTokens, r \in RefreshTokens \cup {Null}}
        sameUser == {st \in loggedIn :
                        /\ Sub(st.token) = st.user_id
                        /\ st.refreshToken # Null => Sub(st.refreshToken) = st.user_id}
    IN  {EmptyStore} \cup sameUser \cup {ClearAuthData(st) : st \in sameUser}

InitMount ==
    /\ now = 0
    /\ store \in StartupStores
    /\ isAuthenticated = FALSE
    /\ isLoading = TRUE
    /\ user = Null
    /\ pathname \in Routes
    /\ nav = "none"
    /\ redirect = "none"
    /\ inflight = EmptyBag
    /\ cont = NoCont
    /\ fetches = 0
    /\ loginReq = 0
    /\ timer = FALSE
    /\ ev = Ev("mount", "none", "none", Null, Null, Null, Null, Null)
    /\ NoPage

\* The response to the refresh request of the startup check arrives.
StartupRefreshDone == isLoading /\ RefreshDone

\* The tasks of one provider; the page is not loaded again.
NextMount ==
    \/ CheckAuthStatus
    \/ CheckAuthResume
    \/ RefreshDone
    \/ Login
    \/ Logout
    \/ GetValidToken
    \/ Navigate
    \/ NavComplete
    \/ Tick

\* The mount effect runs checkAuthStatus and the continuation of an await
\* runs once the awaited promise has settled; the refresh request of the
\* startup check is taken to resolve.
SpecMount ==
    /\ InitMount
    /\ [][NextMount]_vars
    /\ WF_vars(CheckAuthStatus)
    /\ WF_vars(CheckAuthResume)
    /\ WF_vars(StartupRefreshDone)

(***************************************************************************)
(* My Posts page, mounted in an authenticated session whose token stays    *)
(* valid.  A handler runs up to its fetch in one task; the server then     *)
(* processes the request; the rest of the handler runs when the response   *)
(* arrives, with the variables of the render in which it was called.       *)
(***************************************************************************)
\* At most MaxOps delete / status requests are awaiting their response.
MaxOps == 2

\* The posts followed individually, and the search strings typed.
PostIds == {"p1", "p2"}

Queries == {"", "q"}

\* useState(9); setLimit is never called.
limit == 9

\* Posts of the user that are newer than the ones followed and are left
\* alone: they fill the first page of the unfiltered list.  The search "q"
\* matches the followed posts only.
OtherPosts == limit

Post(id, status) == [id |-> id, status |-> status]

Ids(ps) == {p.id : p \in ps}

\* GET /api/myposts?page=&limit=&search=: the posts of the requested page
\* (the followed ones among them) and the number of matching posts.
Listing(d, pg, q) ==
    LET before == IF q = "" THEN OtherPosts ELSE 0
        skip == (pg - 1) * limit
    IN  [posts |-> IF skip = before THEN d ELSE {},
         total |-> before + Cardinality(d)]

\* A request awaiting its response: what was asked (the post and the new
\* status, or the page and the search string of a fetch), the `posts` of the
\* render in which the handler was called (closure), and the response once
\* the server has processed the request ("none" before).
Op(kind, id, status, closure, pg, q, resp) ==
    [kind |-> kind, id |-> id, status |-> status, closure |-> closure,
     page |-> pg, query |-> q, resp |-> resp]

Mutations == {o \in ops : o.kind # "fetch"}

\* getValidToken() resolves to the stored token.
HasToken == GetValidTokenPath(store, now) = "stored"

\* The page has just been mounted: first render, and the effect has called
\* fetchMyPosts for page 1.
InitPosts ==
    /\ now = 0
    /\ store = LoginStore(EmptyStore, "A9", "A", Null)
    /\ isAuthenticated = TRUE
    /\ isLoading = FALSE
    /\ user = "A"
    /\ pathname = LANDING_ROUTE
    /\ nav = "none"
    /\ redirect = "none"
    /\ inflight = EmptyBag
    /\ cont = NoCont
    /\ fetches = 0
    /\ loginReq = 0
    /\ timer = FALSE
    /\ ev = Ev("fetchMyPosts", "page", "await", Null, Null, Null, Null, Null)
    /\ posts = {}
    /\ loadingPosts = TRUE
    /\ page = 1
    /\ total = 0
    /\ searchQuery = ""
    /\ ops = {Op("fetch", Null, Null, {}, 1, "", "none")}
    /\ db \in {{Post(i, "PUBLISHED") : i \in S} : S \in SUBSET PostIds}

\* A task of the page leaves the session manager alone.
PageTask(e) ==
    /\ ev' = e
    /\ UNCHANGED <<now, store, isAuthenticated, isLoading, user, pathname, nav,
                   redirect, inflight, cont, fetches, loginReq, timer>>

\* setPosts(posts.filter((post) => post._id !== postId)), with `posts` the
\* list of the render in which handleDeletePost was called.
AfterDelete(closure, postId) ==
    {p \in closure : p.id # postId}

\* setPosts(posts.map(...)) of handleUpdatePostStatus, with `posts` the list
\* of the render in which it was called.
AfterUpdate(closure, postId, newStatus) ==
    {IF p.id = postId THEN Post(p.id, newStatus) ELSE p : p \in closure}

\* The effect on [page, limit, searchQuery, category, sortOrder] calls
\* fetchMyPosts: setLoading(true), then the GET request for the new values.
FetchMyPosts(pg, q) ==
    /\ loadingPosts' = TRUE
    /\ ops' = ops \cup {Op("fetch", Null, Null, {}, pg, q, "none")}

\* The response to fetchMyPosts' request arrives: setPosts and setTotal on
\* response.ok, setLoading(false) in every case.
FetchDone ==
    /\ \E o \in ops :
          /\ o.kind = "fetch"
          /\ \E ok \in BOOLEAN :
                LET data == Listing(db, o.page, o.query)
                IN  /\ posts' = IF ok THEN data.posts ELSE posts
                    /\ total' = IF ok THEN data.total ELSE total
                    /\ PageTask(Ev("fetchDone", "page", IF ok THEN "ok" ELSE "failed",
                                   Null, Null, Null, Null, Null))
          /\ ops' = ops \ {o}
    /\ loadingPosts' = FALSE
    /\ UNCHANGED <<page, searchQuery, db>>

\* handleNext: the button is rendered when total > 0 and the list is shown.
HandleNext ==
    /\ ~loadingPosts /\ total > 0 /\ HasToken
    /\ page * limit < total
    /\ page' = page + 1
    /\ FetchMyPosts(page + 1, searchQuery)
    /\ PageTask(Other)
    /\ UNCHANGED <<posts, total, searchQuery, db>>

\* handlePrev.
HandlePrev ==
    /\ ~loadingPosts /\ total > 0 /\ HasToken
    /\ page > 1
    /\ page' = page - 1
    /\ FetchMyPosts(page - 1, searchQuery)
    /\ PageTask(Other)
    /\ UNCHANGED <<posts, total, searchQuery, db>>

\* The Search button: setPage(1); setSearchQuery(searchTerm).  The effect
\* runs when one of the two has changed.  (The category and sort selects do
\* the same with their own state.)
HandleSearch ==
    /\ ~loadingPosts /\ HasToken
    /\ \E q \in Queries :
          /\ q # searchQuery \/ page # 1
          /\ page' = 1
          /\ searchQuery' = q
          /\ FetchMyPosts(1, q)
    /\ PageTask(Other)
    /\ UNCHANGED <<posts, total, db>>

\* handleDeletePost(postId) on a displayed post, up to `await fetch`.
HandleDeletePost ==
    /\ ~loadingPosts /\ HasToken
    /\ Cardinality(Mutations) < MaxOps
    /\ \E p \in posts :
          /\ ops' = ops \cup {Op("delete", p.id, Null, posts, 0, "", "none")}
          /\ PageTask(Other)
    /\ UNCHANGED <<posts, loadingPosts, page, total, searchQuery, db>>

\* handleUpdatePostStatus(postId, newStatus) on a displayed post, up to
\* `await fetch`: PUBLISHED posts can be closed, CLOSED ones published.
HandleUpdatePostStatus ==
    /\ ~loadingPosts /\ HasToken
    /\ Cardinality(Mutations) < MaxOps
    /\ \E p \in posts :
          LET newStatus == IF p.status = "PUBLISHED" THEN "CLOSED" ELSE "PUBLISHED"
          IN  /\ ops' = ops \cup {Op("update", p.id, newStatus, posts, 0, "", "none")}
              /\ PageTask(Other)
    /\ UNCHANGED <<posts, loadingPosts, page, total, searchQuery, db>>

\* The server processes a DELETE or PATCH request: 2xx when the post exists,
\* an error status otherwise or when the server fails.
ServerProcess ==
    /\ \E o \in Mutations :
          /\ o.resp = "none"
          /\ \E ok \in BOOLEAN :
                LET exists == o.id \in Ids(db)
                    done == ok /\ exists
                IN  /\ db' = IF ~done THEN db
                             ELSE IF o.kind = "delete"
                             THEN {p \in db : p.id # o.id}
                             ELSE {IF p.id = o.id THEN Post(p.id, o.status) ELSE p : p \in db}
                    /\ ops' = (ops \ {o}) \cup {[o EXCEPT !.resp = IF done THEN "ok" ELSE "failed"]}
    /\ PageTask(Other)
    /\ UNCHANGED <<posts, loadingPosts, page, total, searchQuery>>

\* The response to handleDeletePost's request arrives: on response.ok
\* setPosts(posts.filter(...)) and setTotal((prev) => prev - 1).
DeleteDone ==
    /\ \E o \in Mutations :
          /\ o.kind = "delete" /\ o.resp # "none"
          /\ posts' = IF o.resp = "ok" THEN AfterDelete(o.closure, o.id) ELSE posts
          /\ total' = IF o.resp = "ok" THEN total - 1 ELSE total
          /\ ops' = ops \ {o}
          /\ PageTask(Ev("deleteDone", "page", o.resp, o.id, Null, Null, Null, Null))
    /\ UNCHANGED <<loadingPosts, page, searchQuery, db>>

\* The response to handleUpdatePostStatus's request arrives: on response.ok
\* setPosts(posts.map(...)).
UpdateDone ==
    /\ \E o \in Mutations :
          /\ o.kind = "update" /\ o.resp # "none"
          /\ posts' = IF o.resp = "ok" THEN AfterUpdate(o.closure, o.id, o.status)
                      ELSE posts
          /\ ops' = ops \ {o}
          /\ PageTask(Ev("updateDone", "page", o.resp, o.id, Null, Null, Null, Null))
    /\ UNCHANGED <<loadingPosts, page, total, searchQuery, db>>

NextPosts ==
    \/ FetchDone
    \/ HandleNext
    \/ HandlePrev
    \/ HandleSearch
    \/ HandleDeletePost
    \/ HandleUpdatePostStatus
    \/ ServerProcess
    \/ DeleteDone
    \/ UpdateDone

SpecPosts == InitPosts /\ [][NextPosts]_vars

(***************************************************************************)
(* Properties                                                              *)
(***************************************************************************)
\* The task that just ran was the completion of a refreshToken() call whose
\* request ended as `kind` ("ok", "reject" or "neterr").
RefreshEnded(kind) == ev.op = "refresh" /\ ev.kind = kind

\* C1: when the refresh request fails at network level, refreshToken()
\* returns an absent result and the task leaves the stored token, refresh
\* token and user id, the Session state and the router exactly as they were.
C1_NetworkFailureLeavesState ==
    [][RefreshEnded("neterr")' =>
          /\ ev'.ret = Null
          /\ store' = store
          /\ isAuthenticated' = isAuthenticated
          /\ isLoading' = isLoading
          /\ user' = user
          /\ pathname' = pathname
          /\ nav' = nav
          /\ redirect' = redirect]_vars

\* C1 witness: a network failure has just ended a refresh while credentials
\* were stored and the session was authenticated.
C1_Witness ==
    /\ RefreshEnded("neterr")
    /\ store.token # Null /\ store.refreshToken # Null /\ store.user_id # Null
    /\ isAuthenticated /\ ~isLoading

\* C2 (as claimed): whichever path issued the refresh, neither the task that
\* ends a network-failed refresh nor the caller's continuation of it changes
\* the persisted credentials.
C2_NetworkFailureNeverClears ==
    [][(\/ RefreshEnded("neterr")'
        \/ (RefreshEnded("neterr") /\ ev.caller = "init"
            /\ ev'.op = "checkAuthResume")) =>
          store' = store]_vars

\* C3: a non-2xx response makes refreshToken() log out: the three persisted
\* fields are absent, the session is unauthenticated with no user, the
\* router has a push to the login route pending, the call returns absent,
\* and the call issues no further request.
C3_RejectedRefreshLogsOut ==
    [][RefreshEnded("reject")' =>
          /\ store' = EmptyStore
          /\ ~isAuthenticated'
          /\ user' = Null
          /\ nav' = LOGIN_ROUTE
          /\ ev'.ret = Null
          /\ BagCardinality(inflight') = BagCardinality(inflight) - 1]_vars

\* C3 witness: a refresh issued by getValidToken has just been rejected.
C3_Witness ==
    /\ RefreshEnded("reject")
    /\ ev.caller = "gvt"
    /\ store = EmptyStore /\ ~isAuthenticated /\ nav = LOGIN_ROUTE

\* The exp claim of token t lies before time + 300 s.  Every token of
\* AccessTokens decodes to a payload with an exp claim.
ExpClaimPassed(t, time) == TokenPayload(t).exp < time + BUFFER

\* C4: getValidToken() on a stored token whose exp claim has passed (with the
\* buffer) calls refreshToken() exactly once and returns exactly what that
\* call returns: absent at once when no refresh token is stored, otherwise
\* one request is issued and, when it ends, getValidToken returns
\* refreshToken's result and issues nothing more.  The stored token is
\* returned only when its exp claim has not passed.
C4_ExpiredTokenDelegatesToRefresh ==
    [][/\ (ev'.op = "getValidToken" /\ store.token # Null
           /\ ExpClaimPassed(store.token, now)) =>
             /\ ev'.kind \in {"nort", "await"}
             /\ ev'.kind = "nort" =>
                   /\ store.refreshToken = Null
                   /\ ev'.ret = Null /\ ev'.gret = Null
                   /\ inflight' = inflight
             /\ ev'.kind = "await" =>
                   /\ store.refreshToken # Null
                   /\ inflight' = inflight (+)
                         SetToBag({Request("gvt", store.refreshToken, Null)})
       /\ (ev'.op = "getValidToken" /\ ev'.kind = "stored") =>
             /\ ev'.gret = store.token
             /\ ~ExpClaimPassed(store.token, now)
             /\ inflight' = inflight
       /\ (ev'.op = "refresh" /\ ev'.caller = "gvt") =>
             /\ ev'.gret = ev'.ret
             /\ BagCardinality(inflight') = BagCardinality(inflight) - 1]_vars

\* C4 witness: getValidToken has just returned the token its refresh
\* produced, and the token stored before the response was expired.
C4_Witness ==
    /\ RefreshEnded("ok") /\ ev.caller = "gvt"
    /\ ev.gret = ev.tok /\ ev.gret = "A9"
    /\ now = MaxNow

\* C5: on a 2xx response refreshToken() stores the response token and
\* returns it, replaces the stored refresh token exactly when the response
\* carries one, and leaves user_id alone; getValidToken, when it was the
\* caller, returns the response token.
C5_SuccessfulRefreshStoresToken ==
    [][RefreshEnded("ok")' =>
          /\ store'.token = ev'.tok
          /\ ev'.ret = ev'.tok
          /\ store'.refreshToken =
                (IF ev'.rt # Null THEN ev'.rt ELSE store.refreshToken)
          /\ store'.user_id = store.user_id
          /\ (ev'.caller = "gvt" => ev'.gret = ev'.tok)]_vars

\* C5 witness: the scenario of the claim.  getValidToken's refresh got a 200
\* with a token and no refresh token; the store holds the new token and a
\* refresh token.
C5_Witness ==
    /\ RefreshEnded("ok") /\ ev.caller = "gvt"
    /\ ev.rt = Null /\ ev.gret = "A9"
    /\ store.token = "A9" /\ store.refreshToken = "RA1" /\ store.user_id = "A"

\* The task that just ran called logout(): a consumer did, or refreshToken
\* did on a non-2xx response.
LoggedOut == ev.op = "logout" \/ RefreshEnded("reject")

\* C6: after logout(), whatever the state before, the session is
\* unauthenticated with no user, token, refreshToken and user_id are all
\* absent, and a push to the login route is pending.
C6_LogoutClearsEverything ==
    LoggedOut =>
        /\ ~isAuthenticated
        /\ user = Null
        /\ store = EmptyStore
        /\ nav = LOGIN_ROUTE

\* C6 witness: logout() has run while the startup check was still
\* outstanding (from Initializing).
C6_Witness ==
    LoggedOut /\ isLoading /\ store = EmptyStore

\* C7: login(accessToken, userId, refreshToken) leaves the three values in
\* the store and the session authenticated as userId.
C7_LoginStoresCredentials ==
    (ev.op = "login" /\ ev.rt # Null) =>
        /\ store.token = ev.tok
        /\ store.user_id = ev.uid
        /\ store.refreshToken = ev.rt
        /\ isAuthenticated
        /\ user = ev.uid

\* C7 witness: login was just called with three values and the store now
\* holds exactly those.
C7_Witness ==
    /\ ev.op = "login" /\ ev.rt = "RA2"
    /\ store = [token |-> "A9", refreshToken |-> "RA2", user_id |-> "A"]

\* C8 (as claimed): after a successful login through the login page, the
\* refresh token the login endpoint returned is in the store.
C8_LoginPagePersistsRefreshToken ==
    (ev.op = "handleLogin" /\ ev.kind = "ok" /\ ev.rt # Null) =>
        store.refreshToken = ev.rt

\* C8 reached: the login page has just completed a login whose response
\* carried a refresh token.
C8_Case ==
    ev.op = "handleLogin" /\ ev.kind = "ok" /\ ev.rt # Null

C10_RouteGuard ==
    ~isLoading =>
        /\ (~isAuthenticated /\ pathname \notin PUBLIC_ROUTES) =>
              redirect = LOGIN_ROUTE
        /\ (isAuthenticated /\ pathname \in PUBLIC_ROUTES) =>
              redirect = LANDING_ROUTE

\* C10 witness: long after startup, a navigation has brought an
\* unauthenticated session to a protected location and the effect has pushed
\* /login.
C10_Witness ==
    /\ ~isLoading /\ ~isAuthenticated
    /\ ev = Other
    /\ pathname = LANDING_ROUTE
    /\ redirect = LOGIN_ROUTE /\ nav = LOGIN_ROUTE
    /\ now = MaxNow

\* The token a call of isTokenExpired looks at: its argument, or the stored
\* token when the argument is omitted.
Checked == IF ev.tok # Null THEN ev.tok ELSE store.token

\* C11 (as claimed): isTokenExpired returns false when exp is more than 300 s
\* after now, and true when exp is at most now + 300, when the token cannot
\* be parsed, and when no token is supplied and none is stored.
C11_ExpiryAsClaimed ==
    ev.op = "isTokenExpired" =>
        /\ (Checked \in ExpTokens /\ TokenShape(Checked).exp > now + BUFFER) =>
              ev.kind = "false"
        /\ (Checked \in ExpTokens /\ TokenShape(Checked).exp <= now + BUFFER) =>
              ev.kind = "true"
        /\ Checked \in BrokenTokens => ev.kind = "true"
        /\ Checked = Null => ev.kind = "true"

\* C11 (amended): isTokenExpired always returns a boolean; it returns false
\* when exp is now + 300 or later, and true when exp is before now + 300,
\* when the token cannot be parsed, and when no token is supplied and none
\* is stored.
C11_ExpiryStrictBoundary ==
    ev.op = "isTokenExpired" =>
        /\ ev.kind \in {"true", "false"}
        /\ (Checked \in ExpTokens /\ TokenShape(Checked).exp >= now + BUFFER) =>
              ev.kind = "false"
        /\ (Checked \in ExpTokens /\ TokenShape(Checked).exp < now + BUFFER) =>
              ev.kind = "true"
        /\ Checked \in BrokenTokens => ev.kind = "true"
        /\ Checked = Null => ev.kind = "true"

\* C11 witness: a call on a token whose exp is exactly now + 300, after the
\* clock has advanced, returned false.
C11_Witness ==
    /\ ev.op = "isTokenExpired" /\ ev.tok = "P301"
    /\ now = 1 /\ ev.kind = "false"

\* A task in which refreshToken() found no stored refresh token.
NoRefreshTokenCase == ev.kind = "nort"

\* C12: refreshToken() with no stored refresh token returns null, issues no
\* request, and leaves the store, the session state and the router alone.
C12_NoRefreshTokenNoEffect ==
    [][NoRefreshTokenCase' =>
          /\ ev'.ret = Null
          /\ inflight' = inflight
          /\ store' = store
          /\ isAuthenticated' = isAuthenticated /\ user' = user
          /\ isLoading' = isLoading
          /\ nav' = nav /\ redirect' = redirect]_vars

\* C12 witness: getValidToken() reached refreshToken() with an expired token
\* and no refresh token stored, while the user is authenticated.
C12_Witness ==
    /\ NoRefreshTokenCase /\ ev.op = "getValidToken"
    /\ store.token # Null /\ store.refreshToken = Null /\ isAuthenticated

\* C13: getValidToken() called right after login(t, u, r), with t not
\* expired, returns t, issues no request and leaves the store unchanged.
C13_LoginThenGetValidToken ==
    [][(/\ ev.op = "login"
        /\ ev'.op = "getValidToken"
        /\ ~IsTokenExpired(ev.tok, Null, now))
       => /\ ev'.gret = ev.tok
          /\ inflight' = inflight
          /\ store' = store]_vars

\* C13 witness: getValidToken() ran right after login("A1", ...) at a time
\* when A1 is not expired, and returned A1.
C13_Witness ==
    /\ ev.op = "getValidToken" /\ ev.tok = "A1" /\ ev.kind = "stored"
    /\ ev.gret = "A1" /\ now = 0

\* A getValidToken() call that found no access token in the store.
NoTokenCase == ev.op = "getValidToken" /\ ev.kind = "notoken"

\* C14: getValidToken() with no stored access token returns null without a
\* request, whether or not a refresh token is stored, and leaves the store,
\* the session state and the router alone.
C14_NoTokenNoRefresh ==
    [][(store.token = Null /\ ev'.op = "getValidToken") =>
          /\ ev'.gret = Null
          /\ inflight' = inflight
          /\ store' = store
          /\ isAuthenticated' = isAuthenticated /\ user' = user
          /\ isLoading' = isLoading
          /\ nav' = nav /\ redirect' = redirect]_vars

\* C14 witness: getValidToken() found no access token while a refresh token
\* was stored.
C14_Witness ==
    NoTokenCase /\ store.token = Null /\ store.refreshToken # Null

\* C15: a logout() made right after a logout() leaves the store and the
\* session state as the first call left them; it only asks again for the
\* navigation to the login route.
C15_LogoutIdempotent ==
    [][(ev.op = "logout" /\ ev'.op = "logout") =>
          /\ store' = store
          /\ isAuthenticated' = isAuthenticated /\ user' = user
          /\ isLoading' = isLoading
          /\ inflight' = inflight
          /\ pathname' = pathname /\ redirect' = redirect
          /\ nav' = LOGIN_ROUTE]_vars

\* C15 witness: logout() has just run for the second time in a row.
C15_Witness ==
    /\ ev.op = "logout" /\ ev.kind = "again"
    /\ store = EmptyStore /\ ~isAuthenticated /\ user = Null
    /\ nav = LOGIN_ROUTE

\* C16: in every reachable store, user_id is present exactly when token is
\* present, and refreshToken is present only when token is present.
C16_StoreKeysConsistent ==
    /\ (store.user_id # Null) <=> (store.token # Null)
    /\ store.refreshToken # Null => store.token # Null

\* C16 case: the 401 handling of authenticatedFetch has just cleared the
\* store of a user who had a refresh token.
C16_Case ==
    /\ ev.op = "authenticatedFetch" /\ ev.kind = "401"
    /\ store.token = Null /\ store.refreshToken # Null

\* The state of the Session as the provider exposes it.
SessionState ==
    IF isLoading THEN "Initializing"
    ELSE IF isAuthenticated THEN "Authenticated"
    ELSE "Unauthenticated"

\* A task that ends in a full page load: the provider of the old page is
\* gone and a new one has been mounted.
NewPage == ev.op = "mount" \/ (ev.op = "authenticatedFetch" /\ ev.kind = "401")

\* C17: a provider starts in Initializing; while it is mounted, Initializing
\* is left only by the startup check, Authenticated is left for
\* Unauthenticated only by logout() or a rejected refresh, Unauthenticated is
\* left for Authenticated only by login(), Initializing is never entered
\* again, and a successful or network-failed refresh changes nothing.
C17_SessionTransitions ==
    [][/\ NewPage => SessionState = "Initializing"
       /\ ~NewPage' =>
            /\ SessionState' = "Initializing" => SessionState = "Initializing"
            /\ (SessionState = "Initializing" /\ SessionState' # "Initializing")
                  => ev'.op \in {"checkAuthStatus", "checkAuthResume"}
            /\ (SessionState = "Authenticated" /\ SessionState' = "Unauthenticated")
                  => \/ ev'.op = "logout"
                     \/ ev'.op = "refresh" /\ ev'.kind = "reject"
            /\ (SessionState = "Unauthenticated" /\ SessionState' = "Authenticated")
                  => ev'.op \in {"login", "handleLogin"}
            /\ (ev'.op = "refresh" /\ ev'.kind \in {"ok", "neterr"})
                  => /\ SessionState' = SessionState
                     /\ isAuthenticated' = isAuthenticated /\ user' = user]_vars

\* C17 witness: a refresh that failed on the network has returned to
\* getValidToken and the Session is still Authenticated.
C17_Witness ==
    /\ ev.op = "refresh" /\ ev.kind = "neterr" /\ ev.caller = "gvt"
    /\ SessionState = "Authenticated"

\* C18: once isLoading is false, a store that holds both a token and a
\* user_id goes with isAuthenticated = TRUE.  (The exception the claim allows,
\* an expired token whose refresh failed, is not needed: a rejected refresh
\* empties the store and a network failure leaves the session authenticated.)
C18_StoredCredentialAuthenticated ==
    (~isLoading /\ store.token # Null /\ store.user_id # Null) => isAuthenticated

\* C18 witness: the stored token is expired and the refresh attempted for it
\* by getValidToken failed on the network; token and user_id are still stored
\* and the session is still authenticated.
C18_Witness ==
    /\ ~isLoading /\ store.token # Null /\ store.user_id # Null
    /\ IsTokenExpired(store.token, store.token, now)
    /\ ev.op = "refresh" /\ ev.kind = "neterr"
    /\ isAuthenticated

\* C19: every getValidToken() call that finds an expired token and a stored
\* refresh token sends its own refresh request, carrying the refresh token
\* stored at that moment, whatever is already in flight; two requests can be
\* in flight together.
C19_NoCoalescing ==
    [][(/\ ev'.op = "getValidToken"
        /\ store.token # Null
        /\ IsTokenExpired(store.token, store.token, now)
        /\ store.refreshToken # Null)
       => inflight' = inflight (+) SetToBag({Request("gvt", store.refreshToken, Null)})]_vars

\* C19 witness: a second getValidToken() call has just sent its request while
\* the first one's is still in flight; both carry the stored refresh token.
C19_Witness ==
    /\ ev.op = "getValidToken" /\ ev.kind = "await"
    /\ store.refreshToken # Null
    /\ CopiesIn(Request("gvt", store.refreshToken, Null), inflight) = 2

\* The tasks that run the session manager's own code during startup.
StartupTask == ev.op \in {"checkAuthStatus", "checkAuthResume", "refresh"}

\* C20: a task of the session manager that ends with isLoading still true
\* asks for no navigation and issues no redirect, whatever the response to
\* the refresh the startup check awaits.
C20_NoNavigationWhileLoading ==
    [][(StartupTask' /\ isLoading /\ isLoading') =>
          nav' = nav /\ redirect' = redirect]_vars

\* C20 case: the refresh awaited by the startup check was rejected, and a
\* navigation to the login route is pending while isLoading is still true.
C20_Case ==
    /\ ev.op = "refresh" /\ ev.kind = "reject" /\ ev.caller = "init"
    /\ isLoading /\ nav = LOGIN_ROUTE

\* C21: when the refresh request of the startup check resolves, isLoading
\* becomes false, with the session authenticated with a user or
\* unauthenticated without one, and stays false from then on.
C21_InitializationCompletes ==
    <>[](~isLoading /\ (isAuthenticated <=> user # Null))

\* C21 witness: the startup check has completed after awaiting a refresh
\* that succeeded.
C21_Witness ==
    /\ ev.op = "checkAuthResume" /\ ev.kind = "ok"
    /\ ~isLoading /\ isAuthenticated /\ user # Null

\* A task in which login() ran, called directly or by the login page.
LoginTask == ev.op \in {"login", "handleLogin"}

\* C22: once the store holds neither an access token nor a refresh token, as
\* logout() leaves it, no task other than a login puts one back; the response
\* to a refresh request sent before the logout does not.
C22_NoTokenAfterLogout ==
    [][(store.token = Null /\ store.refreshToken = Null /\ ~LoginTask') =>
          (store'.token = Null /\ store'.refreshToken = Null)]_vars

\* C22 case: the 2xx response to a refresh request has written an access
\* token into a store that has no user_id, the store logout() left.
C22_Case ==
    /\ ev.op = "refresh" /\ ev.kind = "ok"
    /\ store.token # Null /\ store.user_id = Null
    /\ ~isAuthenticated

\* C23: whenever the store holds a user_id, the access token and the refresh
\* token stored with it were issued for that user.
C23_TokenBelongsToUser ==
    store.user_id # Null =>
        /\ store.token # Null => Sub(store.token) = store.user_id
        /\ store.refreshToken # Null => Sub(store.refreshToken) = store.user_id

\* C23 case: the response to a refresh request of user A has arrived after B
\* logged in, and the store holds A's access token under user_id B.
C23_Case ==
    /\ ev.op = "refresh" /\ ev.kind = "ok"
    /\ store.user_id = "B" /\ store.token # Null /\ Sub(store.token) = "A"
    /\ isAuthenticated /\ user = "B"

\* C24: right after a login() called without a refresh token the store holds
\* no refresh token.
C24_LoginWithoutRefreshToken ==
    (ev.op = "login" /\ ev.rt = Null) => store.refreshToken = Null

\* C24 case: login() without a refresh token has run for user B and the
\* store still holds a refresh token issued for user A.
C24_Case ==
    /\ ev.op = "login" /\ ev.rt = Null /\ ev.uid = "B"
    /\ store.refreshToken # Null /\ Sub(store.refreshToken) = "A"

\* C25: a token whose payload is a JSON object without exp is reported
\* expired by isTokenExpired, and getValidToken() does not return it.
C25_NoExpFailsSafe ==
    /\ (ev.op = "isTokenExpired" /\ Checked = "NoExp") => ev.kind = "true"
    /\ (ev.op = "getValidToken" /\ store.token = "NoExp") => ev.gret # "NoExp"

\* C25 case: getValidToken() has returned the stored token, which has no exp.
C25_Case ==
    /\ ev.op = "getValidToken" /\ ev.kind = "stored"
    /\ store.token = "NoExp" /\ ev.gret = "NoExp"

\* C26: when the response to a successful delete arrives, the post leaves
\* the displayed list, the list (if it showed the post) and total go down by
\* one; and a post that is neither displayed nor on the server does not come
\* back into the list except through a fetch.
C26_DeletedPostStaysGone ==
    [][/\ (ev'.op = "deleteDone" /\ ev'.kind = "ok") =>
            /\ ev'.tok \notin Ids(posts')
            /\ ev'.tok \in Ids(posts) => Cardinality(posts') = Cardinality(posts) - 1
            /\ total' = total - 1
       /\ ev'.op # "fetchDone" =>
            \A i \in PostIds :
                (i \notin Ids(db) /\ i \notin Ids(posts)) => i \notin Ids(posts')]_vars

\* C26 case: the responses to two overlapping deletes have arrived, nothing
\* is left on the server, and the list still shows a deleted post.
C26_Case ==
    /\ ev.op = "deleteDone" /\ ev.kind = "ok"
    /\ db = {} /\ ops = {} /\ posts # {}

\* C27: page is at least 1 and, when total > 0, at most ceil(total / limit).
C27_PageInRange ==
    /\ page >= 1
    /\ total > 0 => (page - 1) * limit < total

\* C27 case: a successful delete on the second page has left page = 2 with
\* a total that fits on one page.
C27_Case ==
    /\ ev.op = "deleteDone" /\ ev.kind = "ok"
    /\ page = 2 /\ total > 0 /\ total <= limit

====
